---- MODULE Spec2Model ----
(***************************************************************************)
(* Model of the notebook/kernel session manager of jupyterMCP               *)
(* (src/jupyterAPI.py, class JupyterAPI) and of the parts of the request    *)
(* adapter (src/jupyterMCP.py) that compute what a report says.             *)
(*                                                                          *)
(* Python object identity matters here: self.original_cells is either None, *)
(* the very list object self.notebook.cells (an alias), or a distinct list. *)
(* The field origState records which, and every in-place mutation of the    *)
(* cell list goes through SetCells, which keeps an aliased backup equal.    *)
(* A cell object is a member of at most one list: lists are created empty   *)
(* or freshly read from a file, and a cell is created by an insert into     *)
(* exactly one list.                                                        *)
(*                                                                          *)
(* The backend (nbclient) and the storage are external. The outcome of      *)
(* every backend call is an input of the operation (its oracle), chosen     *)
(* nondeterministically by the action. Whether the storage accepts writes   *)
(* is a state of the environment (writable), which changes between          *)
(* operations.                                                              *)
(*                                                                          *)
(* The tools of the adapter are coroutines that call the session without a  *)
(* lock. inflight is the tool invocation that is suspended inside a backend *)
(* call, if any (None otherwise).                                           *)
(***************************************************************************)
EXTENDS Integers, Sequences, FiniteSets, TLC

VARIABLES api, disk, writable, call, steps, inflight

vars == <<api, disk, writable, call, steps, inflight>>

\* ------------------------------------------------------------------ bounds
MaxCells == 2
MaxSteps == 2

\* program constant: default length of get_cell_text_output
DefaultLength == 3000

\* ------------------------------------------------------------- Python values
None == <<>>
Some(x) == <<x>>
IsNone(o) == o = <<>>
Val(o) == o[1]

Min(a, b) == IF a < b THEN a ELSE b
Max(a, b) == IF a > b THEN a ELSE b

\* s[a:b] of Python, for a sequence s and integers a, b
PySlice(s, a, b) ==
    LET n  == Len(s)
        lo == IF a < 0 THEN Max(a + n, 0) ELSE Min(a, n)
        hi == IF b < 0 THEN Max(b + n, 0) ELSE Min(b, n)
    IN  IF lo >= hi THEN <<>> ELSE SubSeq(s, lo + 1, hi)

\* the position at which list.insert(index, x) places x in a list of length n
PyInsertPos(index, n) ==
    IF index < 0 THEN Max(index + n, 0) ELSE Min(index, n)

\* list.insert(index, x), 0-based index, Python semantics
PyInsert(s, index, x) ==
    LET p == PyInsertPos(index, Len(s))
    IN  SubSeq(s, 1, p) \o <<x>> \o SubSeq(s, p + 1, Len(s))

\* del s[i], 0-based, i in range
PyDel(s, i) == SubSeq(s, 1, i) \o SubSeq(s, i + 2, Len(s))

\* ------------------------------------------------------------------- cells
StdOut == [output_type |-> "stream", name |-> "stdout", plain |-> FALSE, text |-> <<"o", "k">>]
StdErr == [output_type |-> "stream", name |-> "stderr", plain |-> FALSE, text |-> <<"w">>]
ExecResult == [output_type |-> "execute_result", name |-> "", plain |-> TRUE, text |-> <<"4", "2">>]
ErrorOutput == [output_type |-> "error", name |-> "", plain |-> FALSE, text |-> <<>>]

new_code_cell(code) ==
    [cell_type |-> "code", source |-> code, outputs |-> <<>>, slide_type |-> "None"]

\* a Markdown cell has no outputs attribute; outputs = <<>> stands for that
new_markdown_cell(code) ==
    [cell_type |-> "markdown", source |-> code, outputs |-> <<>>, slide_type |-> "None"]

\* ----------------------------------------------------------------- storage
Paths == {"work.ipynb", "other.ipynb"}

Absent == [exists |-> FALSE, readable |-> FALSE, cells |-> <<>>]
File(cs) == [exists |-> TRUE, readable |-> TRUE, cells |-> cs]

\* a file that is there and that open() or nbformat.read fails on
Unreadable == [exists |-> TRUE, readable |-> FALSE, cells |-> <<>>]

\* a notebook that may lie on the disk before the session is constructed
SampleDoc ==
    << [new_code_cell("a") EXCEPT !.outputs = <<StdOut>>], new_markdown_cell("m") >>

\* -------------------------------------------------------- backend outcomes
\* what client.execute_cell can do: return (the outputs of the cell are
\* replaced), raise CellExecutionError (the outputs end with an error
\* record), raise AssertionError (no kernel client: the connection is
\* lost), or raise any other exception (dead kernel, timeout)
ExecOutcomes ==
    { [res |-> "ok", outputs |-> <<StdOut>>],
      [res |-> "ok", outputs |-> <<StdErr, ExecResult>>],
      [res |-> "CellExecutionError", outputs |-> <<StdErr, ErrorOutput>>],
      [res |-> "AssertionError", outputs |-> <<>>],
      [res |-> "Exception", outputs |-> <<>>] }

NoExec == [res |-> "ok", outputs |-> <<StdOut>>]

\* -------------------------------------------------------------- the world
\* The state an operation works on: the fields of the JupyterAPI object, the
\* disk, and the trace of the backend and storage calls of this operation.
\* live: the kernel of self.client was started and its warm-up run returned.
\* orphans: the number of such kernels whose client the session dropped
\* without asking the kernel to shut down.
World(a, d, wr) ==
    [writable |-> wr, notebook |-> a.notebook, notebook_path |-> a.notebook_path, cells |-> a.cells,
     original_cells |-> a.original_cells, origState |-> a.origState,
     client |-> a.client, live |-> a.live, orphans |-> a.orphans,
     disk |-> d, trace |-> <<>>]

\* one call to the backend or the storage: for an execution, the index the
\* backend was given, how it ended, and the outputs it produced
Event(e, i, r, o) == [ev |-> e, idx |-> i, res |-> r, outputs |-> o]

Log(w, e) == [w EXCEPT !.trace = Append(@, e)]

\* in-place mutation of the list self.notebook.cells
SetCells(w, cs) ==
    [w EXCEPT !.cells = cs,
              !.original_cells = IF w.origState = "alias" THEN cs ELSE @]

Return(w, v) == [w |-> w, raised |-> "none", ret |-> v]
Raise(w, exc) == [w |-> w, raised |-> exc, ret |-> None]

\* ------------------------------------------------------------ save_notebook
\* the write succeeds when the storage is writable; self.notebook_path is
\* never None
save_notebook(w) ==
    IF w.notebook = "None"
    THEN Return(w, Some("no_notebook"))
    ELSE IF w.writable
    THEN Return(Log([w EXCEPT !.disk[w.notebook_path] = File(w.cells)],
                    Event("save", -1, "ok", <<>>)), None)
    ELSE Return(Log(w, Event("save", -1, "failed", <<>>)), Some("save_error"))

\* ------------------------------------------------------------- start_kernel
\* start_kernel that drops the backup once the cell list is restored
start_kernel_oneshot(w, ok) ==
    LET w1 == IF w.origState = "none"
              THEN [w EXCEPT !.original_cells = w.cells, !.origState = "alias"]
              ELSE w
        w2 == [w1 EXCEPT !.cells = <<>>, !.origState = "own"]
        w3 == [w2 EXCEPT !.client = "client", !.live = FALSE]
    IN  IF ok
        THEN Return(Log([w3 EXCEPT !.cells = w3.original_cells, !.live = TRUE,
                                   !.original_cells = <<>>, !.origState = "none"],
                        Event("start_kernel", -1, "ok", <<>>)), None)
        ELSE Raise(Log(w3, Event("start_kernel", -1, "Exception", <<>>)), "Exception")

\* ok is whether client.execute(cleanup_kc=False) of the emptied notebook
\* returns; when it raises, the last assignment is not reached
start_kernel(w, ok) ==
    LET w1 == IF w.origState = "none"
              THEN [w EXCEPT !.original_cells = w.cells, !.origState = "alias"]
              ELSE w
        \* self.notebook.cells = []  (a new list object)
        w2 == [w1 EXCEPT !.cells = <<>>, !.origState = "own"]
        \* the old kernel is asked to shut down (best effort); then a new
        \* client
        w3 == [w2 EXCEPT !.client = "client", !.live = FALSE]
    IN  IF ok
        THEN Return(Log([w3 EXCEPT !.cells = w3.original_cells, !.origState = "alias",
                                   !.live = TRUE],
                        Event("start_kernel", -1, "ok", <<>>)), None)
        ELSE Raise(Log(w3, Event("start_kernel", -1, "Exception", <<>>)), "Exception")

\* start_kernel up to the call client.execute(cleanup_kc=False): the state
\* of the session while that call runs
start_kernel_enter(w) ==
    LET w1 == IF w.origState = "none"
              THEN [w EXCEPT !.original_cells = w.cells, !.origState = "alias"]
              ELSE w
        w2 == [w1 EXCEPT !.cells = <<>>, !.origState = "own"]
    IN  [w2 EXCEPT !.client = "client", !.live = FALSE]

\* start_kernel from the return of client.execute(cleanup_kc=False) on: ok
\* is whether it returns. The restore reads self.original_cells as it is
\* then.
start_kernel_leave(w, ok) ==
    IF ok
    THEN Return(Log([w EXCEPT !.cells = w.original_cells, !.origState = "alias",
                              !.live = TRUE],
                    Event("start_kernel", -1, "ok", <<>>)), None)
    ELSE Raise(Log(w, Event("start_kernel", -1, "Exception", <<>>)), "Exception")

\* ---------------------------------------------------------- shutdown_kernel
\* ok is whether km.shutdown_kernel() returns; a failure is swallowed and
\* leaves self.client set
shutdown_kernel(w, ok) ==
    IF w.client # "None"
    THEN IF ok THEN Return([w EXCEPT !.client = "None", !.live = FALSE], None)
         ELSE Return(w, None)
    ELSE Return(w, None)

\* ------------------------------------------------------ initialize_notebook
\* ok is whether client.execute(cleanup_kc=False) returns; a client that is
\* there is dropped (self.client = None), its kernel is not asked to shut
\* down
initialize_notebook(w, ok) ==
    LET w1 == IF w.origState = "none"
              THEN [w EXCEPT !.original_cells = w.cells, !.origState = "alias"]
              ELSE w
        w2 == [w1 EXCEPT !.cells = <<>>, !.origState = "own"]
        w3 == [w2 EXCEPT !.orphans = IF w.client # "None" /\ w.live THEN @ + 1 ELSE @,
                         !.client = "client", !.live = FALSE]
    IN  IF ok
        THEN Return(Log([w3 EXCEPT !.cells = w3.original_cells, !.origState = "alias",
                                   !.live = TRUE],
                        Event("start_kernel", -1, "ok", <<>>)), None)
        ELSE Raise(Log(w3, Event("start_kernel", -1, "Exception", <<>>)), "Exception")

\* ------------------------------------------------------ get_cell_text_output
TextOf(o) ==
    IF o.output_type = "stream" THEN o.text
    ELSE IF o.output_type = "execute_result" /\ o.plain THEN o.text
    ELSE IF o.output_type = "display_data" /\ o.plain THEN o.text
    ELSE <<>>

RECURSIVE ConcatText(_)
ConcatText(outs) ==
    IF outs = <<>> THEN <<>> ELSE TextOf(Head(outs)) \o ConcatText(Tail(outs))

\* get_cell_text_output whose header reports the length of the slice
get_cell_text_output_slicelen(w, cell_index, start_index, length) ==
    IF cell_index < 0 \/ cell_index >= Len(w.cells)
    THEN Raise(w, "ValueError")
    ELSE LET cell == w.cells[cell_index + 1]
         IN  IF cell.cell_type # "code"
             THEN Return(w, [blank |-> TRUE, full_length |-> 0, result |-> <<>>])
             ELSE LET text_output == ConcatText(cell.outputs)
                      full_length == Len(text_output)
                      start == IF start_index < 0 THEN 0 ELSE start_index
                      result == IF start >= full_length THEN <<>>
                                ELSE IF IsNone(length)
                                     THEN PySlice(text_output, start, full_length)
                                     ELSE PySlice(text_output, start, start + Val(length))
                  IN  Return(w, [blank |-> FALSE, full_length |-> Len(result),
                                 result |-> result])

\* length is None or Some(n)
get_cell_text_output(w, cell_index, start_index, length) ==
    IF cell_index < 0 \/ cell_index >= Len(w.cells)
    THEN Raise(w, "ValueError")
    ELSE LET cell == w.cells[cell_index + 1]
         IN  IF cell.cell_type # "code"
             THEN Return(w, [blank |-> TRUE, full_length |-> 0, result |-> <<>>])
             ELSE LET text_output == ConcatText(cell.outputs)
                      full_length == Len(text_output)
                      start == IF start_index < 0 THEN 0 ELSE start_index
                      result == IF start >= full_length THEN <<>>
                                ELSE IF IsNone(length)
                                     THEN PySlice(text_output, start, full_length)
                                     ELSE PySlice(text_output, start, start + Val(length))
                  IN  Return(w, [blank |-> FALSE, full_length |-> full_length,
                                 result |-> result])

\* ------------------------------------------------------------- execute_cell
\* client.execute_cell(cell, cell_index) with outcome o. where is Some(p)
\* when the cell object is the member at position p of self.notebook.cells
\* and None when it is a member of no list of the document (detached): a
\* detached cell is mutated without the document changing. cell_index is
\* only what the backend is told.
execute_cell(w, where, cell_index, o) ==
    LET w1 == IF ~IsNone(where) /\ o.res \in {"ok", "CellExecutionError"}
              THEN SetCells(w, [w.cells EXCEPT ![Val(where) + 1].outputs = o.outputs])
              ELSE w
    IN  Log(w1, Event("execute_cell", cell_index, o.res, o.outputs))

\* where a cell at position p is after start_kernel replaced the cell list
\* by self.original_cells: still at p when the backup is the same list
AfterStart(w, where) ==
    IF w.origState \in {"alias", "none"} THEN where ELSE None

\* ----------------------------------------------------------------- run_cell
\* run_cell_retry without the restart (the retry goes to the dead connection)
run_cell_retry_norestart(w, cell_index, where, bk) ==
    LET w3 == execute_cell(w, where, cell_index, bk.o2)
        w4 == save_notebook(w3).w
        out == get_cell_text_output(w4, cell_index, 0, Some(DefaultLength))
    IN  IF bk.o2.res # "ok"
        THEN Return(w3, [kind |-> "retry_failed", text |-> None])
        ELSE IF out.raised # "none"
             THEN Return(w4, [kind |-> "retry_failed", text |-> None])
        ELSE Return(w4, [kind |-> "output", text |-> Some(out.ret)])

\* The handler of AssertionError (connection lost) of run_cell: one restart,
\* then one retry whose every failure is returned as a string.
\* bk.sk1: does the restart succeed; bk.o2: outcome of the retry.
run_cell_retry(w, cell_index, where, bk) ==
    LET r2 == start_kernel(w, bk.sk1)
        w3 == execute_cell(r2.w, AfterStart(w, where), cell_index, bk.o2)
        w4 == save_notebook(w3).w
        out == get_cell_text_output(w4, cell_index, 0, Some(DefaultLength))
    IN  IF r2.raised # "none" THEN r2
        ELSE IF bk.o2.res # "ok"
             THEN Return(w3, [kind |-> "retry_failed", text |-> None])
        ELSE IF out.raised # "none"
             THEN Return(w4, [kind |-> "retry_failed", text |-> None])
        ELSE Return(w4, [kind |-> "output", text |-> Some(out.ret)])

\* run_cell that brings the connection up before it validates the index
run_cell_start_first(w, cell_index, bk) ==
    LET r0 == IF w.client = "None" THEN start_kernel(w, bk.sk0) ELSE Return(w, None)
    IN  IF r0.raised # "none" THEN r0
        ELSE IF cell_index < 0 \/ cell_index >= Len(r0.w.cells)
             THEN Raise(r0.w, "ValueError")
        ELSE IF r0.w.cells[cell_index + 1].cell_type # "code"
             THEN Raise(r0.w, "ValueError")
        ELSE LET w1 == execute_cell(r0.w, Some(cell_index), cell_index, bk.o1)
             IN  IF bk.o1.res = "ok"
                 THEN Return(save_notebook(w1).w, [kind |-> "output", text |-> None])
                 ELSE Return(w1, [kind |-> "exec_error", text |-> None])

\* run_cell that executes on whatever self.client is, without a start
run_cell_nostart(w, cell_index, bk) ==
    IF w.notebook = "None" THEN Raise(w, "ValueError")
    ELSE IF cell_index < 0 \/ cell_index >= Len(w.cells) THEN Raise(w, "ValueError")
    ELSE IF w.cells[cell_index + 1].cell_type # "code" THEN Raise(w, "ValueError")
    ELSE
      LET where == Some(cell_index)
          w1 == execute_cell(w, where, cell_index, bk.o1)
          w2 == save_notebook(w1).w
          out == get_cell_text_output(w2, cell_index, 0, Some(DefaultLength))
      IN  IF bk.o1.res = "ok"
          THEN IF out.raised # "none" THEN Raise(w2, out.raised)
               ELSE Return(w2, [kind |-> "output", text |-> Some(out.ret)])
          ELSE IF bk.o1.res = "CellExecutionError"
               THEN Return(w1, [kind |-> "exec_error", text |-> None])
          ELSE IF bk.o1.res = "AssertionError"
               THEN run_cell_retry(w1, cell_index, where, bk)
          ELSE Raise(w1, bk.o1.res)

\* bk.sk0: does the start succeed when no client exists; bk.o1: outcome of
\* the first execution
run_cell(w, cell_index, bk) ==
    IF w.notebook = "None" THEN Raise(w, "ValueError")
    ELSE IF cell_index < 0 \/ cell_index >= Len(w.cells) THEN Raise(w, "ValueError")
    ELSE IF w.cells[cell_index + 1].cell_type # "code" THEN Raise(w, "ValueError")
    ELSE
      LET r0 == IF w.client = "None" THEN start_kernel(w, bk.sk0) ELSE Return(w, None)
          \* cell was read from the list before the start replaced the list
          where == IF w.client = "None" THEN AfterStart(w, Some(cell_index))
                   ELSE Some(cell_index)
          w1 == execute_cell(r0.w, where, cell_index, bk.o1)
          w2 == save_notebook(w1).w
          out == get_cell_text_output(w2, cell_index, 0, Some(DefaultLength))
      IN  IF r0.raised # "none" THEN r0
          ELSE IF bk.o1.res = "ok"
               THEN IF out.raised # "none" THEN Raise(w2, out.raised)
                    ELSE Return(w2, [kind |-> "output", text |-> Some(out.ret)])
          ELSE IF bk.o1.res = "CellExecutionError"
               THEN Return(w1, [kind |-> "exec_error", text |-> None])
          ELSE IF bk.o1.res = "AssertionError"
               THEN run_cell_retry(w1, cell_index, where, bk)
          ELSE Raise(w1, bk.o1.res)

\* ------------------------------------------------------- the tool run_cell
\* The strings are sequences of pieces; a phrase is one piece. The phrases
\* stand for the Chinese texts of the source: "cell_execution_error:" for
\* the prefix of the string run_cell returns for a CellExecutionError,
\* "retry_failed:" for the prefix of the string of a failed retry,
\* "kernel_connection_lost" for the text run_cell prints before its restart.
ErrorPhrases == {"cell_execution_error:", "kernel_connection_lost", "retry_failed:"}

\* the string the session's run_cell returned
RunCellString(ret) ==
    IF ret.kind = "exec_error" THEN <<"cell_execution_error:">>
    ELSE IF ret.kind = "retry_failed" THEN <<"retry_failed:">>
    ELSE IF Val(ret.text).blank THEN <<>>
    ELSE <<"total_length:">> \o Val(ret.text).result

\* the adapter (jupyterMCP.run_cell) on the result r of the session: an
\* exception becomes an error report; a returned string is reported as an
\* error or warning when one of the phrases occurs in it, and as the output
\* of the cell otherwise
mcp_run_cell(r) ==
    IF r.raised # "none"
    THEN [r EXCEPT !.raised = "none",
                   !.ret = [kind |-> "raised", report |-> "format_error"]]
    ELSE LET output == RunCellString(r.ret)
         IN  [r EXCEPT !.ret =
                 [kind |-> r.ret.kind,
                  report |-> IF \E k \in 1 .. Len(output) : output[k] \in ErrorPhrases
                             THEN "error_warning" ELSE "output"]]

\* -------------------------------------------------------------- insert_cell
\* insert_cell that hands every explicit index to list.insert
insert_cell_nocheck(w, code, cell_type, index) ==
    IF w.notebook = "None" THEN Return(w, [kind |-> "error", index |-> None])
    ELSE IF cell_type \notin {"code", "markdown"}
         THEN Return(w, [kind |-> "error", index |-> None])
    ELSE
      LET cell == IF cell_type = "code" THEN new_code_cell(code)
                  ELSE new_markdown_cell(code)
          w1 == IF IsNone(index) THEN SetCells(w, Append(w.cells, cell))
                ELSE SetCells(w, PyInsert(w.cells, Val(index), cell))
          cell_index == IF IsNone(index) THEN Len(w1.cells) - 1 ELSE Val(index)
          w2 == [w1 EXCEPT !.original_cells = w1.cells, !.origState = "alias"]
          sr == save_notebook(w2)
      IN  IF ~IsNone(sr.ret)
          THEN Return(sr.w, [kind |-> "error", index |-> None])
          ELSE Return(sr.w, [kind |-> "index", index |-> Some(cell_index)])

\* index is None (append) or Some(i). Every failure is returned as a string.
insert_cell(w, code, cell_type, index) ==
    IF w.notebook = "None" THEN Return(w, [kind |-> "error", index |-> None])
    ELSE IF cell_type \notin {"code", "markdown"}
         THEN Return(w, [kind |-> "error", index |-> None])
    ELSE IF ~IsNone(index) /\ (Val(index) < 0 \/ Val(index) > Len(w.cells))
         THEN Return(w, [kind |-> "error", index |-> None])
    ELSE
      LET cell == IF cell_type = "code" THEN new_code_cell(code)
                  ELSE new_markdown_cell(code)
          w1 == IF IsNone(index) THEN SetCells(w, Append(w.cells, cell))
                ELSE SetCells(w, PyInsert(w.cells, Val(index), cell))
          cell_index == IF IsNone(index) THEN Len(w1.cells) - 1 ELSE Val(index)
          \* self.original_cells = self.notebook.cells
          w2 == [w1 EXCEPT !.original_cells = w1.cells, !.origState = "alias"]
          sr == save_notebook(w2)
      IN  IF ~IsNone(sr.ret)
          THEN Return(sr.w, [kind |-> "error", index |-> None])
          ELSE Return(sr.w, [kind |-> "index", index |-> Some(cell_index)])

\* -------------------------------------------------- insert_and_execute_cell
\* the last two statements: the backup becomes the cell list, then a save
\* whose result is dropped; the cell object is returned
insert_and_execute_finish(w, cell_index) ==
    LET w1 == [w EXCEPT !.original_cells = w.cells, !.origState = "alias"]
    IN  Return(save_notebook(w1).w, [cell_index |-> cell_index])

\* insert_and_execute_cell that runs the new cell whatever its type
insert_and_execute_cell_anytype(w, code, cell_type, index, bk) ==
    IF w.notebook = "None" THEN Raise(w, "ValueError")
    ELSE
      LET r0 == IF w.client = "None" THEN start_kernel(w, bk.sk0) ELSE Return(w, None)
          w0 == r0.w
          cell == IF cell_type = "code" THEN new_code_cell(code)
                  ELSE new_markdown_cell(code)
          w1 == IF IsNone(index) THEN SetCells(w0, Append(w0.cells, cell))
                ELSE SetCells(w0, PyInsert(w0.cells, Val(index), cell))
          cell_index == IF IsNone(index) THEN Len(w1.cells) - 1 ELSE Val(index)
          where == IF IsNone(index) THEN Some(Len(w0.cells))
                   ELSE Some(PyInsertPos(Val(index), Len(w0.cells)))
          w2 == execute_cell(w1, where, cell_index, bk.o1)
          r3 == start_kernel(w2, bk.sk1)
          w4 == execute_cell(r3.w, AfterStart(w2, where), cell_index, bk.o2)
      IN  IF r0.raised # "none" THEN r0
          ELSE IF cell_type \notin {"code", "markdown"} THEN Raise(w0, "ValueError")
          ELSE IF bk.o1.res \in {"ok", "CellExecutionError"}
               THEN insert_and_execute_finish(w2, cell_index)
          ELSE IF bk.o1.res = "AssertionError"
               THEN IF r3.raised # "none" THEN r3
                    ELSE insert_and_execute_finish(w4, cell_index)
          ELSE Raise(w2, bk.o1.res)

\* the cell list is not validated against index: list.insert clamps it
insert_and_execute_cell(w, code, cell_type, index, bk) ==
    IF w.notebook = "None" THEN Raise(w, "ValueError")
    ELSE
      LET r0 == IF w.client = "None" THEN start_kernel(w, bk.sk0) ELSE Return(w, None)
          w0 == r0.w
          cell == IF cell_type = "code" THEN new_code_cell(code)
                  ELSE new_markdown_cell(code)
          w1 == IF IsNone(index) THEN SetCells(w0, Append(w0.cells, cell))
                ELSE SetCells(w0, PyInsert(w0.cells, Val(index), cell))
          cell_index == IF IsNone(index) THEN Len(w1.cells) - 1 ELSE Val(index)
          where == IF IsNone(index) THEN Some(Len(w0.cells))
                   ELSE Some(PyInsertPos(Val(index), Len(w0.cells)))
          w2 == execute_cell(w1, where, cell_index, bk.o1)
          r3 == start_kernel(w2, bk.sk1)
          w4 == execute_cell(r3.w, AfterStart(w2, where), cell_index, bk.o2)
      IN  IF r0.raised # "none" THEN r0
          ELSE IF cell_type \notin {"code", "markdown"} THEN Raise(w0, "ValueError")
          ELSE IF cell_type # "code" THEN insert_and_execute_finish(w1, cell_index)
          ELSE IF bk.o1.res \in {"ok", "CellExecutionError"}
               THEN insert_and_execute_finish(w2, cell_index)
          ELSE IF bk.o1.res = "AssertionError"
               THEN IF r3.raised # "none" THEN r3
                    ELSE insert_and_execute_finish(w4, cell_index)
          ELSE Raise(w2, bk.o1.res)

\* the adapter (jupyterMCP.insert_and_execute_cell): the index it reports,
\* computed after the session call returned r, and whether it can fetch the
\* output at that index
mcp_insert_and_execute_cell(r, cell_type, index) ==
    IF r.raised # "none" THEN r
    ELSE LET inserted_at_index == IF ~IsNone(index) THEN Val(index)
                                  ELSE Len(r.w.cells) - 1
             fetch == cell_type = "code" /\ 0 <= inserted_at_index
                      /\ inserted_at_index < Len(r.w.cells)
         IN  [r EXCEPT !.ret = [cell_index |-> r.ret.cell_index,
                                inserted_at_index |-> inserted_at_index,
                                fetched |-> fetch]]

\* -------------------------------------------------------------- delete_cell
\* delete_cell that persists the document like the other mutators
delete_cell_saving(w, cell_index) ==
    IF w.notebook = "None" THEN Return(w, Some("no_notebook"))
    ELSE IF cell_index < 0 \/ cell_index >= Len(w.cells)
         THEN Return(w, Some("out_of_range"))
    ELSE Return(save_notebook(SetCells(w, PyDel(w.cells, cell_index))).w, None)

delete_cell(w, cell_index) ==
    IF w.notebook = "None" THEN Return(w, Some("no_notebook"))
    ELSE IF cell_index < 0 \/ cell_index >= Len(w.cells)
         THEN Return(w, Some("out_of_range"))
    ELSE Return(SetCells(w, PyDel(w.cells, cell_index)), None)

\* -------------------------------------------------------- edit_cell_content
\* edit_cell_content that resets the outputs of the cell it edits
edit_cell_content_clearing(w, cell_index, new_content) ==
    IF w.notebook = "None" THEN Return(w, Some("no_notebook"))
    ELSE IF cell_index < 0 \/ cell_index >= Len(w.cells)
    THEN Return(w, Some("out_of_range"))
    ELSE LET w1 == SetCells(w, [w.cells EXCEPT ![cell_index + 1].source = new_content,
                                               ![cell_index + 1].outputs = <<>>])
             s == save_notebook(w1)
         IN  Return(s.w, s.ret)

\* the result is None, or the reason of the failure
edit_cell_content(w, cell_index, new_content) ==
    IF w.notebook = "None" THEN Return(w, Some("no_notebook"))
    ELSE IF cell_index < 0 \/ cell_index >= Len(w.cells)
    THEN Return(w, Some("out_of_range"))
    ELSE LET w1 == SetCells(w, [w.cells EXCEPT ![cell_index + 1].source = new_content])
             s == save_notebook(w1)
         IN  Return(s.w, s.ret)

\* ------------------------------------------------------- set_slideshow_type
\* slide_type "None" stands for None, which removes the slideshow entry of
\* the metadata of the cell
valid_types == {"slide", "subslide", "fragment", "skip", "notes", "None"}

set_slideshow_type(w, cell_index, slide_type) ==
    IF w.notebook = "None" THEN Return(w, Some("no_notebook"))
    ELSE IF cell_index < 0 \/ cell_index >= Len(w.cells)
    THEN Return(w, Some("out_of_range"))
    ELSE IF slide_type \notin valid_types
    THEN Return(w, Some("invalid_type"))
    ELSE LET w1 == SetCells(w, [w.cells EXCEPT ![cell_index + 1].slide_type = slide_type])
             s == save_notebook(w1)
         IN  Return(s.w, s.ret)

\* ------------------------------------------------- execute_cells_by_indices
\* StderrWarnings that takes every stream output for a warning
StreamWarnings(cell, idx) ==
    LET F[k \in 0 .. Len(cell.outputs)] ==
            IF k = 0 THEN <<>>
            ELSE IF cell.outputs[k].output_type = "stream"
                 THEN Append(F[k - 1], [cell_index |-> idx,
                                        message |-> cell.outputs[k].text])
                 ELSE F[k - 1]
    IN  F[Len(cell.outputs)]

StderrWarnings(cell, idx) ==
    LET F[k \in 0 .. Len(cell.outputs)] ==
            IF k = 0 THEN <<>>
            ELSE IF cell.outputs[k].output_type = "stream"
                    /\ cell.outputs[k].name = "stderr"
                 THEN Append(F[k - 1], [cell_index |-> idx,
                                        message |-> cell.outputs[k].text])
                 ELSE F[k - 1]
    IN  F[Len(cell.outputs)]

NewResult ==
    [success |-> TRUE, last_index |-> None, error |-> None,
     warnings |-> <<>>, output |-> None]

\* ExecLoop that passes over an index out of range and goes on
RECURSIVE ExecLoop_skip(_, _, _, _, _)
ExecLoop_skip(w, indices, outs, k, result) ==
    IF k > Len(indices) THEN [w |-> w, result |-> result]
    ELSE
      LET idx == indices[k]
      IN  IF idx < 0 \/ idx >= Len(w.cells)
          THEN ExecLoop_skip(w, indices, outs, k + 1,
                   [result EXCEPT !.success = FALSE,
                                  !.error = Some([kind |-> "range", idx |-> idx])])
          ELSE IF w.cells[idx + 1].cell_type # "code"
               THEN ExecLoop_skip(w, indices, outs, k + 1, result)
          ELSE LET w1 == execute_cell(w, Some(idx), idx, outs[k])
               IN  IF outs[k].res = "ok"
                   THEN ExecLoop_skip(w1, indices, outs, k + 1,
                                 [result EXCEPT !.last_index = Some(idx),
                                     !.warnings = @ \o StderrWarnings(w1.cells[idx + 1], idx)])
                   ELSE [w |-> w1,
                         result |-> [result EXCEPT !.success = FALSE,
                                        !.error = Some([kind |-> "exec", idx |-> idx]),
                                        !.last_index = Some(idx)]]

\* ExecLoop that answers a lost connection like run_cell: restart, retry
RECURSIVE ExecLoop_retry(_, _, _, _, _)
ExecLoop_retry(w, indices, outs, k, result) ==
    IF k > Len(indices) THEN [w |-> w, result |-> result]
    ELSE
      LET idx == indices[k]
      IN  IF idx < 0 \/ idx >= Len(w.cells)
          THEN [w |-> w,
                result |-> [result EXCEPT !.success = FALSE,
                                          !.error = Some([kind |-> "range", idx |-> idx])]]
          ELSE IF w.cells[idx + 1].cell_type # "code"
               THEN ExecLoop_retry(w, indices, outs, k + 1, result)
          ELSE LET w1 == execute_cell(w, Some(idx), idx, outs[k])
                   w2 == execute_cell(start_kernel(w1, TRUE).w,
                                      AfterStart(w1, Some(idx)), idx, outs[k])
               IN  IF outs[k].res = "ok"
                   THEN ExecLoop_retry(w1, indices, outs, k + 1,
                                 [result EXCEPT !.last_index = Some(idx),
                                     !.warnings = @ \o StderrWarnings(w1.cells[idx + 1], idx)])
                   ELSE [w |-> IF outs[k].res = "AssertionError" THEN w2 ELSE w1,
                         result |-> [result EXCEPT !.success = FALSE,
                                        !.error = Some([kind |-> "exec", idx |-> idx]),
                                        !.last_index = Some(idx)]]

\* the for loop from position k of indices on; outs[k] is the outcome of the
\* execution at position k. Returns the world and the result dictionary.
RECURSIVE ExecLoop(_, _, _, _, _)
ExecLoop(w, indices, outs, k, result) ==
    IF k > Len(indices) THEN [w |-> w, result |-> result]
    ELSE
      LET idx == indices[k]
      IN  IF idx < 0 \/ idx >= Len(w.cells)
          THEN [w |-> w,
                result |-> [result EXCEPT !.success = FALSE,
                                          !.error = Some([kind |-> "range", idx |-> idx])]]
          ELSE IF w.cells[idx + 1].cell_type # "code"
               THEN ExecLoop(w, indices, outs, k + 1, result)
          ELSE LET w1 == execute_cell(w, Some(idx), idx, outs[k])
               IN  IF outs[k].res = "ok"
                   THEN ExecLoop(w1, indices, outs, k + 1,
                                 [result EXCEPT !.last_index = Some(idx),
                                     !.warnings = @ \o StderrWarnings(w1.cells[idx + 1], idx)])
                   ELSE [w |-> w1,
                         result |-> [result EXCEPT !.success = FALSE,
                                        !.error = Some([kind |-> "exec", idx |-> idx]),
                                        !.last_index = Some(idx)]]

\* execute_cells_by_indices that runs the indices in ascending order
execute_cells_by_indices_sorted(w, indices, bk) ==
    IF w.notebook = "None" THEN Raise(w, "ValueError")
    ELSE
      LET r0 == IF w.client = "None" THEN start_kernel(w, bk.sk0) ELSE Return(w, None)
          lp == ExecLoop(r0.w, SortSeq(indices, LAMBDA a, b : a < b), bk.outs, 1,
                         NewResult)
          w2 == save_notebook(lp.w).w
          out == get_cell_text_output(w2, Val(lp.result.last_index), 0,
                                      Some(DefaultLength))
      IN  IF r0.raised # "none" THEN r0
          ELSE IF IsNone(lp.result.last_index) THEN Return(w2, lp.result)
          ELSE IF out.raised # "none" THEN Raise(w2, out.raised)
          ELSE Return(w2, [lp.result EXCEPT !.output = Some(out.ret)])

\* execute_cells_by_indices that saves only a batch that succeeded
execute_cells_by_indices_saveok(w, indices, bk) ==
    IF w.notebook = "None" THEN Raise(w, "ValueError")
    ELSE
      LET r0 == IF w.client = "None" THEN start_kernel(w, bk.sk0) ELSE Return(w, None)
          lp == ExecLoop(r0.w, indices, bk.outs, 1, NewResult)
          w2 == IF lp.result.success THEN save_notebook(lp.w).w ELSE lp.w
          out == get_cell_text_output(w2, Val(lp.result.last_index), 0,
                                      Some(DefaultLength))
      IN  IF r0.raised # "none" THEN r0
          ELSE IF IsNone(lp.result.last_index) THEN Return(w2, lp.result)
          ELSE IF out.raised # "none" THEN Raise(w2, out.raised)
          ELSE Return(w2, [lp.result EXCEPT !.output = Some(out.ret)])

\* bk.outs: one execution outcome per position of indices
execute_cells_by_indices(w, indices, bk) ==
    IF w.notebook = "None" THEN Raise(w, "ValueError")
    ELSE
      LET r0 == IF w.client = "None" THEN start_kernel(w, bk.sk0) ELSE Return(w, None)
          lp == ExecLoop(r0.w, indices, bk.outs, 1, NewResult)
          w2 == save_notebook(lp.w).w
          out == get_cell_text_output(w2, Val(lp.result.last_index), 0,
                                      Some(DefaultLength))
      IN  IF r0.raised # "none" THEN r0
          ELSE IF IsNone(lp.result.last_index) THEN Return(w2, lp.result)
          ELSE IF out.raised # "none" THEN Raise(w2, out.raised)
          ELSE Return(w2, [lp.result EXCEPT !.output = Some(out.ret)])

\* ------------------------------------------------------------ run_all_cells
\* the number of Code cells among the first j cells of cs
CodeRank(cs, j) ==
    Cardinality({i \in 1 .. j : cs[i].cell_type = "code"})

\* client.execute(...) on the document: the backend runs the Code cells in
\* document order. o.done Code cells return (their outputs are replaced);
\* with o.res = "CellExecutionError" the next Code cell ends with an error
\* record and the run stops; with "AssertionError" or "Exception" the run
\* stops there without touching the next cell.
execute(w, o) ==
    LET cs == w.cells
        ran == [j \in 1 .. Len(cs) |->
                  IF cs[j].cell_type # "code" THEN cs[j]
                  ELSE IF CodeRank(cs, j) <= o.done
                       THEN [cs[j] EXCEPT !.outputs = <<StdOut>>]
                  ELSE IF CodeRank(cs, j) = o.done + 1
                          /\ o.res = "CellExecutionError"
                       THEN [cs[j] EXCEPT !.outputs = <<StdErr, ErrorOutput>>]
                  ELSE cs[j]]
    IN  Log(SetCells(w, ran), Event("execute", o.done, o.res, <<>>))

\* run_all_cells that re-runs on the lost connection without a restart
run_all_cells_norestart(w, bk) ==
    IF w.notebook = "None" THEN Return(w, Some("no_notebook"))
    ELSE
      LET r0 == IF w.client = "None" THEN start_kernel(w, bk.sk0) ELSE Return(w, None)
          w1 == execute(r0.w, bk.b1)
          s1 == save_notebook(w1)
          w3 == execute(w1, bk.b2)
          s3 == save_notebook(w3)
      IN  IF r0.raised # "none" THEN r0
          ELSE IF bk.b1.res = "ok" THEN Return(s1.w, s1.ret)
          ELSE IF bk.b1.res = "CellExecutionError"
               THEN Return(w1, Some("exec_error"))
          ELSE IF bk.b1.res = "AssertionError"
               THEN IF bk.b2.res = "ok" THEN Return(s3.w, s3.ret)
                    ELSE Return(w3, Some("retry_failed"))
          ELSE Raise(w1, bk.b1.res)

\* bk.sk0: does the start succeed when no client exists; bk.b1: outcome of
\* the run; bk.sk1: does the restart succeed; bk.b2: outcome of the re-run
run_all_cells(w, bk) ==
    IF w.notebook = "None" THEN Return(w, Some("no_notebook"))
    ELSE
      LET r0 == IF w.client = "None" THEN start_kernel(w, bk.sk0) ELSE Return(w, None)
          w1 == execute(r0.w, bk.b1)
          s1 == save_notebook(w1)
          r2 == start_kernel(w1, bk.sk1)
          w3 == execute(r2.w, bk.b2)
          s3 == save_notebook(w3)
      IN  IF r0.raised # "none" THEN r0
          ELSE IF bk.b1.res = "ok" THEN Return(s1.w, s1.ret)
          ELSE IF bk.b1.res = "CellExecutionError"
               THEN Return(w1, Some("exec_error"))
          ELSE IF bk.b1.res = "AssertionError"
               THEN IF r2.raised # "none" THEN Return(r2.w, Some("retry_failed"))
                    ELSE IF bk.b2.res = "ok" THEN Return(s3.w, s3.ret)
                    ELSE Return(w3, Some("retry_failed"))
          ELSE Raise(w1, bk.b1.res)

\* ------------------------------------------------------------ open_notebook
\* open_notebook that binds the new path before it flushes the document
open_notebook_pathfirst(w, path, sk0) ==
    LET w0 == [w EXCEPT !.notebook_path = path]
        w1 == IF w.notebook # "None" /\ w.notebook_path # path
              THEN save_notebook(w0).w ELSE w0
        w2 == w1
        w3 == IF w2.disk[path].exists
              THEN [w2 EXCEPT !.notebook = "open", !.cells = w2.disk[path].cells,
                              !.original_cells = w2.disk[path].cells,
                              !.origState = "alias"]
              ELSE save_notebook([w2 EXCEPT !.notebook = "open", !.cells = <<>>,
                                            !.original_cells = <<>>,
                                            !.origState = "own"]).w
    IN  IF w2.disk[path].exists /\ ~w2.disk[path].readable
        THEN Raise(w2, "ReadError")
        ELSE start_kernel(w3, sk0)

\* sk0: does the start of the kernel succeed. The read of a file that is
\* there raises when the file is unreadable or malformed.
open_notebook(w, path, sk0) ==
    LET w1 == IF w.notebook # "None" /\ w.notebook_path # path
              THEN save_notebook(w).w ELSE w
        w2 == [w1 EXCEPT !.notebook_path = path]
        w3 == IF w2.disk[path].exists
              THEN [w2 EXCEPT !.notebook = "open", !.cells = w2.disk[path].cells,
                              !.original_cells = w2.disk[path].cells,
                              !.origState = "alias"]
              ELSE save_notebook([w2 EXCEPT !.notebook = "open", !.cells = <<>>,
                                            !.original_cells = <<>>,
                                            !.origState = "own"]).w
    IN  IF w2.disk[path].exists /\ ~w2.disk[path].readable
        THEN Raise(w2, "ReadError")
        ELSE start_kernel(w3, sk0)

\* open_notebook up to the call client.execute(cleanup_kc=False) of its
\* start_kernel
open_notebook_enter(w, path) ==
    LET w1 == IF w.notebook # "None" /\ w.notebook_path # path
              THEN save_notebook(w).w ELSE w
        w2 == [w1 EXCEPT !.notebook_path = path]
        w3 == IF w2.disk[path].exists
              THEN [w2 EXCEPT !.notebook = "open", !.cells = w2.disk[path].cells,
                              !.original_cells = w2.disk[path].cells,
                              !.origState = "alias"]
              ELSE save_notebook([w2 EXCEPT !.notebook = "open", !.cells = <<>>,
                                            !.original_cells = <<>>,
                                            !.origState = "own"]).w
    IN  start_kernel_enter(w3)

\* ------------------------------------------------------------- construction
\* JupyterAPI(notebook_path = path, init_code = "", isnew = isnew) on a disk
\* d; the construction succeeds when the kernel starts
Construct(path, isnew, d, wr) ==
    LET d1 == IF isnew /\ d[path].exists THEN [d EXCEPT ![path] = Absent] ELSE d
        w0 == [writable |-> wr, notebook |-> "None", notebook_path |-> path,
               cells |-> <<>>, original_cells |-> <<>>, origState |-> "none",
               client |-> "None", live |-> FALSE, orphans |-> 0,
               disk |-> d1, trace |-> <<>>]
    IN  open_notebook(w0, path, TRUE)

ApiOf(w) ==
    [notebook |-> w.notebook, notebook_path |-> w.notebook_path, cells |-> w.cells,
     original_cells |-> w.original_cells, origState |-> w.origState,
     client |-> w.client, live |-> w.live, orphans |-> w.orphans]

\* the last operation: its name, arguments, result (the exception it raised
\* or the value it returned), its backend and storage calls, and the state
\* it started in
NoCall == [op |-> "init", args |-> <<>>, raised |-> "none", ret |-> None,
           trace |-> <<>>, pre |-> None]

\* the storage accepts writes when the session is constructed
Init ==
    \E isnew \in BOOLEAN, d \in [Paths -> {Absent, File(SampleDoc)}] :
        LET r == Construct("work.ipynb", isnew, d, TRUE)
        IN  /\ api = ApiOf(r.w)
            /\ disk = r.w.disk
            /\ writable = TRUE
            /\ call = NoCall
            /\ steps = 0
            /\ inflight = None

\* the world an operation starts in
Now == World(api, disk, writable)

\* one operation of the session: r is its result on Now
Finish(op, args, r) ==
    /\ steps < MaxSteps
    /\ Len(r.w.cells) <= MaxCells
    /\ api' = ApiOf(r.w)
    /\ disk' = r.w.disk
    /\ call' = [op |-> op, args |-> args, raised |-> r.raised, ret |-> r.ret,
                trace |-> r.w.trace,
                pre |-> [api |-> api, disk |-> disk, writable |-> writable]]
    /\ steps' = steps + 1
    /\ UNCHANGED <<writable, inflight>>

\* ------------------------------------------------------------------ actions
Indices == -1 .. MaxCells

\* the backend outcomes of one operation
Oracle(sk0, o1, sk1, o2) == [sk0 |-> sk0, o1 |-> o1, sk1 |-> sk1, o2 |-> o2]

\* the outcomes an operation never consumes are fixed, so that each run of
\* the code is enumerated once
Vary(cond, S, dflt) == IF cond THEN S ELSE {dflt}

IsCodeIndex(i) ==
    i >= 0 /\ i < Len(api.cells) /\ api.cells[i + 1].cell_type = "code"

\* the storage starts or stops accepting writes
StorageChange ==
    /\ steps < MaxSteps
    /\ writable' = ~writable
    /\ call' = [NoCall EXCEPT !.op = "storage_change"]
    /\ steps' = steps + 1
    /\ UNCHANGED <<api, disk, inflight>>

OpenNotebook ==
    \E path \in Paths, sk0 \in BOOLEAN :
        Finish("open_notebook", <<path>>, open_notebook(Now, path, sk0))

StartKernel ==
    \E sk0 \in BOOLEAN :
        Finish("start_kernel", <<>>, start_kernel(Now, sk0))

ShutdownKernel ==
    \E ok \in BOOLEAN :
        Finish("shutdown_kernel", <<>>, shutdown_kernel(Now, ok))

RunCell ==
    \E i \in Indices :
      \E sk0 \in Vary(IsCodeIndex(i) /\ api.client = "None", BOOLEAN, TRUE) :
        \E o1 \in Vary(IsCodeIndex(i) /\ sk0, ExecOutcomes, NoExec) :
          \E sk1 \in Vary(o1.res = "AssertionError", BOOLEAN, TRUE) :
            \E o2 \in Vary(o1.res = "AssertionError" /\ sk1, ExecOutcomes, NoExec) :
              Finish("run_cell", <<i>>, run_cell(Now, i, Oracle(sk0, o1, sk1, o2)))

SaveNotebook ==
    Finish("save_notebook", <<>>, save_notebook(Now))

InsertIndex == {None} \cup {Some(i) : i \in Indices}

CellTypes == {"code", "markdown", "raw"}

\* an unsupported cell type is rejected before the index is looked at
InsertCell ==
    \E cell_type \in CellTypes :
      \E index \in Vary(cell_type # "raw", InsertIndex, None) :
        Finish("insert_cell", <<cell_type, index>>,
               insert_cell(Now, "x", cell_type, index))

InsertAndExecuteCell ==
    \E cell_type \in CellTypes :
     \E index \in Vary(cell_type # "raw", InsertIndex, None) :
      \E sk0 \in Vary(api.client = "None", BOOLEAN, TRUE) :
        \E o1 \in Vary(cell_type = "code" /\ sk0, ExecOutcomes, NoExec) :
          \E sk1 \in Vary(o1.res = "AssertionError", BOOLEAN, TRUE) :
            \E o2 \in Vary(o1.res = "AssertionError" /\ sk1, ExecOutcomes, NoExec) :
              Finish("insert_and_execute_cell", <<cell_type, index>>,
                     mcp_insert_and_execute_cell(
                         insert_and_execute_cell(Now, "x", cell_type, index,
                                                 Oracle(sk0, o1, sk1, o2)),
                         cell_type, index))

DeleteCell ==
    \E i \in Indices :
        Finish("delete_cell", <<i>>, delete_cell(Now, i))

\* the index lists given to execute_cells_by_indices: every list of at most
\* two indices
IndexLists ==
    {<<>>} \cup {<<i>> : i \in Indices} \cup {<<i, j>> : i \in Indices, j \in Indices}

\* the cell list the loop of execute_cells_by_indices runs on: a start of
\* the kernel before the loop replaces the list by the backup
LoopCells ==
    IF api.client = "None" /\ api.origState = "own" THEN api.original_cells
    ELSE api.cells

\* the outcome sequences for positions k.. of indices, varying only at the
\* positions whose execution the loop reaches
RECURSIVE BatchOutcomes(_, _, _)
BatchOutcomes(cs, indices, k) ==
    IF k > Len(indices) THEN {<<>>}
    ELSE IF indices[k] < 0 \/ indices[k] >= Len(cs)
         THEN {[j \in 1 .. Len(indices) - k + 1 |-> NoExec]}
    ELSE IF cs[indices[k] + 1].cell_type # "code"
         THEN {<<NoExec>> \o t : t \in BatchOutcomes(cs, indices, k + 1)}
    ELSE UNION { IF o.res = "ok"
                 THEN {<<o>> \o t : t \in BatchOutcomes(cs, indices, k + 1)}
                 ELSE {<<o>> \o [j \in 1 .. Len(indices) - k |-> NoExec]}
                 : o \in ExecOutcomes }

ExecuteCellsByIndices ==
    \E indices \in IndexLists :
      \E sk0 \in Vary(api.client = "None", BOOLEAN, TRUE) :
        \E outs \in Vary(sk0, BatchOutcomes(LoopCells, indices, 1),
                          [k \in 1 .. Len(indices) |-> NoExec]) :
          Finish("execute_cells_by_indices", <<indices>>,
                 execute_cells_by_indices(Now, indices, [sk0 |-> sk0, outs |-> outs]))

Next ==
    \/ StorageChange
    \/ OpenNotebook
    \/ StartKernel
    \/ ShutdownKernel
    \/ RunCell
    \/ SaveNotebook
    \/ InsertCell
    \/ InsertAndExecuteCell
    \/ DeleteCell
    \/ ExecuteCellsByIndices

Spec == Init /\ [][Next]_vars

\* ------------------------------------------- the session on richer documents
\* a notebook of two Code cells
TwoCodeDoc ==
    << [new_code_cell("a") EXCEPT !.outputs = <<StdOut>>], new_code_cell("b") >>

\* the session is constructed on an existing notebook
InitOps ==
    \E doc \in {SampleDoc, TwoCodeDoc} :
        LET d == [p \in Paths |-> IF p = "work.ipynb" THEN File(doc) ELSE Absent]
            r == Construct("work.ipynb", FALSE, d, TRUE)
        IN  /\ api = ApiOf(r.w)
            /\ disk = r.w.disk
            /\ writable = TRUE
            /\ call = NoCall
            /\ steps = 0
            /\ inflight = None

\* the outcomes of client.execute on a document of n Code cells
BulkOutcomes(n) ==
    {[res |-> "ok", done |-> n]}
        \cup {[res |-> r, done |-> k] :
                 r \in {"CellExecutionError", "AssertionError", "Exception"},
                 k \in 0 .. n - 1}
        \cup {[res |-> r, done |-> 0] : r \in {"AssertionError", "Exception"}}

NoBulk == [res |-> "ok", done |-> 0]

\* the number of Code cells the run of run_all_cells finds: a start of the
\* kernel before it replaces the list by the backup
NumLoopCode == CodeRank(LoopCells, Len(LoopCells))

RunAllCells ==
    \E sk0 \in Vary(api.client = "None", BOOLEAN, TRUE) :
      \E b1 \in Vary(sk0, BulkOutcomes(NumLoopCode), NoBulk) :
        \E sk1 \in Vary(b1.res = "AssertionError", BOOLEAN, TRUE) :
          \E b2 \in Vary(b1.res = "AssertionError" /\ sk1,
                          BulkOutcomes(IF api.origState = "none" THEN 0
                                       ELSE CodeRank(api.original_cells,
                                                     Len(api.original_cells))),
                          NoBulk) :
            Finish("run_all_cells", <<>>,
                   run_all_cells(Now, [sk0 |-> sk0, b1 |-> b1, sk1 |-> sk1, b2 |-> b2]))

EditCellContent ==
    \E i \in Indices :
        Finish("edit_cell_content", <<i, "y">>, edit_cell_content(Now, i, "y"))

NextOps ==
    \/ StorageChange
    \/ StartKernel
    \/ ShutdownKernel
    \/ ExecuteCellsByIndices
    \/ RunAllCells
    \/ EditCellContent

SpecOps == InitOps /\ [][NextOps]_vars

\* ---------------------------------------- every operation on the connection
InitializeNotebook ==
    \E ok \in BOOLEAN :
        Finish("initialize_notebook", <<>>, initialize_notebook(Now, ok))

SlideTypes == {"slide", "None", "bogus"}

SetSlideshowType ==
    \E i \in Indices, slide_type \in SlideTypes :
        Finish("set_slideshow_type", <<i, slide_type>>,
               set_slideshow_type(Now, i, slide_type))

\* the operations that start, use or drop the connection and those that
\* change the cells, on a storage that accepts every write
NextSession ==
    \/ StartKernel
    \/ ShutdownKernel
    \/ InitializeNotebook
    \/ RunCell
    \/ ExecuteCellsByIndices
    \/ InsertAndExecuteCell
    \/ RunAllCells
    \/ InsertCell
    \/ EditCellContent
    \/ SetSlideshowType
    \/ DeleteCell

SpecSession == Init /\ [][NextSession]_vars

\* ------------------------------------------------- an open that may fail
\* the session is constructed on an existing notebook; the other path holds
\* no file, a notebook, or a file that cannot be read
InitOpen ==
    \E other \in {Absent, File(SampleDoc), Unreadable} :
        LET d == [p \in Paths |-> IF p = "work.ipynb" THEN File(TwoCodeDoc) ELSE other]
            r == Construct("work.ipynb", FALSE, d, TRUE)
        IN  /\ api = ApiOf(r.w)
            /\ disk = r.w.disk
            /\ writable = TRUE
            /\ call = NoCall
            /\ steps = 0
            /\ inflight = None

NextOpen ==
    \/ OpenNotebook
    \/ SaveNotebook
    \/ EditCellContent
    \/ DeleteCell

SpecOpen == InitOpen /\ [][NextOpen]_vars

\* ---------------------------------------- the backup across the operations
\* open, the operations that change the cells, and the start of the kernel
NextBackup ==
    \/ OpenNotebook
    \/ StartKernel
    \/ InsertCell
    \/ InsertAndExecuteCell
    \/ EditCellContent
    \/ SetSlideshowType
    \/ DeleteCell

SpecBackup == Init /\ [][NextBackup]_vars

\* ------------------------------------------------ two tool calls in flight
\* The tools are coroutines on one event loop and call the session without
\* a lock. Whether another tool call runs while a backend call of the
\* session is in progress is up to the backend library: where its blocking
\* call runs the event loop again, the loop serves the next request before
\* the backend call returns (where it blocks the loop, a tool call is one
\* step, as in Spec). The tools that make no backend call are one step.
\* The tool open_notebook enters the backend call of its start_kernel and is
\* suspended there.
OpenNotebookEnter ==
    \E path \in Paths :
        LET w == open_notebook_enter(Now, path)
        IN  /\ IsNone(inflight)
            /\ ~disk[path].exists \/ disk[path].readable
            /\ steps < MaxSteps
            /\ api' = ApiOf(w)
            /\ disk' = w.disk
            /\ inflight' = Some([op |-> "open_notebook", args |-> <<path>>,
                                 trace |-> w.trace,
                                 pre |-> [api |-> api, disk |-> disk,
                                          writable |-> writable]])
            /\ call' = [op |-> "open_notebook", args |-> <<path>>,
                        raised |-> "pending", ret |-> None, trace |-> w.trace,
                        pre |-> [api |-> api, disk |-> disk, writable |-> writable]]
            /\ steps' = steps + 1
            /\ UNCHANGED writable

\* the backend call of the suspended tool call returns or raises, and the
\* tool call runs to its end
OpenNotebookLeave ==
    \E ok \in BOOLEAN :
        LET r == start_kernel_leave(Now, ok)
            f == Val(inflight)
        IN  /\ ~IsNone(inflight)
            /\ api' = ApiOf(r.w)
            /\ disk' = r.w.disk
            /\ inflight' = None
            /\ call' = [op |-> f.op, args |-> f.args, raised |-> r.raised,
                        ret |-> r.ret, trace |-> f.trace \o r.w.trace, pre |-> f.pre]
            /\ UNCHANGED <<writable, steps>>

NextTools ==
    \/ OpenNotebookEnter
    \/ OpenNotebookLeave
    \/ SaveNotebook
    \/ InsertCell
    \/ DeleteCell

SpecTools == InitOps /\ [][NextTools]_vars

\* ------------------------------------------------------- the tool run_cell
\* a cell that prints one of the phrases
StdOutPhrase ==
    [output_type |-> "stream", name |-> "stdout", plain |-> FALSE,
     text |-> <<"kernel_connection_lost">>]

ToolOutcomes == ExecOutcomes \cup {[res |-> "ok", outputs |-> <<StdOutPhrase>>]}

RunCellTool ==
    \E i \in Indices :
      \E sk0 \in Vary(IsCodeIndex(i) /\ api.client = "None", BOOLEAN, TRUE) :
        \E o1 \in Vary(IsCodeIndex(i) /\ sk0, ToolOutcomes, NoExec) :
          \E sk1 \in Vary(o1.res = "AssertionError", BOOLEAN, TRUE) :
            \E o2 \in Vary(o1.res = "AssertionError" /\ sk1, ToolOutcomes, NoExec) :
              Finish("mcp_run_cell", <<i>>,
                     mcp_run_cell(run_cell(Now, i, Oracle(sk0, o1, sk1, o2))))

NextAdapter ==
    \/ ShutdownKernel
    \/ RunCellTool

SpecAdapter == InitOps /\ [][NextAdapter]_vars

\* ------------------------------------------------- get_cell_text_output alone
MaxOffset == 5
MaxLimit == 3

\* display_data records with and without a text/plain entry
DisplayPlain == [output_type |-> "display_data", name |-> "", plain |-> TRUE, text |-> <<"d">>]
DisplayImage == [output_type |-> "display_data", name |-> "", plain |-> FALSE, text |-> <<"p", "n", "g">>]

\* the cells of the notebooks the text is read from: a Code cell without
\* outputs, Code cells with text and other records, a Markdown cell
TextCells ==
    { new_code_cell("a"),
      [new_code_cell("a") EXCEPT !.outputs = <<StdOut, ExecResult>>],
      [new_code_cell("a") EXCEPT !.outputs = <<StdErr, DisplayImage, ErrorOutput, DisplayPlain>>],
      new_markdown_cell("m") }

\* the session is constructed on an existing notebook of two such cells
InitText ==
    \E c1 \in TextCells, c2 \in TextCells :
        LET d == [p \in Paths |-> IF p = "work.ipynb" THEN File(<<c1, c2>>) ELSE Absent]
            r == Construct("work.ipynb", FALSE, d, TRUE)
        IN  /\ api = ApiOf(r.w)
            /\ disk = r.w.disk
            /\ writable = TRUE
            /\ call = NoCall
            /\ steps = 0
            /\ inflight = None

Offsets == (0 - MaxLimit) .. MaxOffset
Limits == {None} \cup {Some(n) : n \in (0 - MaxLimit) .. MaxLimit}

\* the text of each notebook is read once: the operation changes nothing
GetCellTextOutput ==
    \E i \in Indices, start_index \in Offsets, length \in Limits :
        /\ steps = 0
        /\ Finish("get_cell_text_output", <<i, start_index, length>>,
                  get_cell_text_output(Now, i, start_index, length))

NextText == GetCellTextOutput

SpecText == InitText /\ [][NextText]_vars

\* ==================================================================== claims
IsExec(e) == e.ev = "execute_cell"
IsStart(e) == e.ev = "start_kernel"
IsSave(e) == e.ev = "save"

Execs(tr) == SelectSeq(tr, IsExec)

\* what follows the first execution in a trace that has one
AfterFirstExec(tr) ==
    LET k == CHOOSE n \in 1 .. Len(tr) :
                 IsExec(tr[n]) /\ \A j \in 1 .. n - 1 : ~IsExec(tr[j])
    IN  SubSeq(tr, k + 1, Len(tr))

\* the argument of the last run_cell names a Code cell of the document the
\* call started on
RunIndexValid ==
    /\ call.args[1] >= 0
    /\ call.args[1] < Len(call.pre.api.cells)
    /\ call.pre.api.cells[call.args[1] + 1].cell_type = "code"

\* the last operation was a run_cell whose first execution lost the connection
LostFirst ==
    /\ call.op = "run_cell"
    /\ Execs(call.trace) # <<>>
    /\ Execs(call.trace)[1].res = "AssertionError"

Restarts == SelectSeq(AfterFirstExec(call.trace), IsStart)
Retries == SelectSeq(AfterFirstExec(call.trace), IsExec)

\* C1 as stated: a run_cell whose first attempt loses the connection makes
\* exactly one restart and exactly one retry of the same cell, and a retry
\* that loses the connection again is returned as a string.
C1_Original ==
    LostFirst =>
        /\ Len(Restarts) = 1
        /\ Len(Retries) = 1
        /\ Retries[1].idx = call.args[1]
        /\ (Retries[1].res = "AssertionError" =>
                call.raised = "none" /\ call.ret.kind = "retry_failed")

\* C1 amended: exactly one restart attempt and at most one retry, exactly
\* one when the restart succeeds, of the same cell; a retry that loses the
\* connection again is returned as a string, not raised.
C1_RestartOnceRetryOnce ==
    LostFirst =>
        /\ Len(Restarts) = 1
        /\ Len(Retries) <= 1
        /\ (Len(Retries) = 1) = (Restarts[1].res = "ok")
        /\ (Len(Retries) = 1 =>
               /\ Retries[1].idx = call.args[1]
               /\ (Retries[1].res = "AssertionError" =>
                       call.raised = "none" /\ call.ret.kind = "retry_failed"))

C1_Witness ==
    /\ LostFirst
    /\ Len(Restarts) = 1
    /\ Len(Retries) = 1
    /\ Retries[1].res = "AssertionError"
    /\ call.raised = "none"
    /\ call.ret.kind = "retry_failed"

\* C2: run_cell(i) leaves the number of cells and every cell other than
\* cell i as they were before the call, on every path of the call.
C2_OtherCellsUntouched ==
    call.op = "run_cell" =>
        /\ Len(api.cells) = Len(call.pre.api.cells)
        /\ \A j \in 1 .. Len(api.cells) :
               j # call.args[1] + 1 => api.cells[j] = call.pre.api.cells[j]

\* C3: run_cell with an index out of range or of a non-Code cell raises a
\* validation error before any connection work: no backend or storage call
\* is made, and the session (document, backup, client) and the disk are
\* unchanged.
C3_InvalidIndexRaisesFirst ==
    (call.op = "run_cell" /\ ~RunIndexValid) =>
        /\ call.raised = "ValueError"
        /\ call.trace = <<>>
        /\ api = call.pre.api
        /\ disk = call.pre.disk

C3_Witness ==
    /\ call.op = "run_cell"
    /\ ~RunIndexValid
    /\ call.pre.api.client = "None"
    /\ Len(call.pre.api.cells) > 0
    /\ call.raised = "ValueError"
    /\ api.client = "None"

\* C4: given a valid Code-cell index, run_cell never raises: every backend
\* failure is returned as a string.
C4_NeverRaises ==
    (call.op = "run_cell" /\ RunIndexValid) => call.raised = "none"

\* the cell a call with cell type t creates (the actions insert source "x")
CreatedCell(t) ==
    IF t = "code" THEN new_code_cell("x") ELSE new_markdown_cell("x")

\* the last operation op was given a supported cell type
InsertTyped(op) ==
    call.op = op /\ call.args[1] \in {"code", "markdown"}

\* the explicit index of the last insertion lies outside [0, len(cells)]
IndexOutside ==
    /\ ~IsNone(call.args[2])
    /\ (Val(call.args[2]) < 0 \/ Val(call.args[2]) > Len(call.pre.api.cells))

\* C5: insert_cell with index None appends (the new cell is last, every
\* earlier cell keeps its index); insert_cell with an explicit index outside
\* [0, len(cells)] returns an error and leaves the cell list, the backup and
\* the file on disk unchanged, without any backend or storage call.
C5_InsertCellAppendsOrRejects ==
    InsertTyped("insert_cell") =>
        /\ IsNone(call.args[2]) =>
               api.cells = Append(call.pre.api.cells, CreatedCell(call.args[1]))
        /\ IndexOutside =>
               /\ call.raised = "none"
               /\ call.ret.kind = "error"
               /\ call.trace = <<>>
               /\ api = call.pre.api
               /\ disk = call.pre.disk

C5_Witness ==
    /\ InsertTyped("insert_cell")
    /\ IndexOutside
    /\ Val(call.args[2]) > Len(call.pre.api.cells)
    /\ Len(call.pre.api.cells) > 0
    /\ call.ret.kind = "error"
    /\ api.cells = call.pre.api.cells

\* C6 as stated: insert_and_execute_cell rejects an explicit index outside
\* [0, len(cells)] without changing the cell list, the backup or the file,
\* and for an accepted explicit index the new cell is at that index
\* afterwards, which is the index given to the backend and the index
\* reported.
C6_SameIndexRule ==
    InsertTyped("insert_and_execute_cell") =>
        /\ IndexOutside =>
               /\ api.cells = call.pre.api.cells
               /\ api.original_cells = call.pre.api.original_cells
               /\ disk = call.pre.disk
        /\ (~IsNone(call.args[2]) /\ ~IndexOutside /\ call.raised = "none") =>
               /\ Val(call.args[2]) < Len(api.cells)
               /\ api.cells[Val(call.args[2]) + 1].source = "x"
               /\ call.ret.inserted_at_index = Val(call.args[2])
               /\ \A k \in 1 .. Len(Execs(call.trace)) :
                      Execs(call.trace)[k].idx = Val(call.args[2])

\* C7 as stated: when the cell type is supported and the index is None or
\* in [0, len(cells)], insert_and_execute_cell returns without raising
\* whatever the backend does, the new cell is in the document, the backup
\* is the cell list with the new cell, and the document is on the disk
\* (when the storage accepts the write).
C7_InsertionAlwaysSucceeds ==
    (InsertTyped("insert_and_execute_cell") /\ ~IndexOutside) =>
        /\ call.raised = "none"
        /\ Len(api.cells) = Len(call.pre.api.cells) + 1
        /\ \E j \in 1 .. Len(api.cells) : api.cells[j].source = "x"
        /\ api.original_cells = api.cells
        /\ (call.pre.writable => disk[api.notebook_path] = File(api.cells))

\* C8: delete_cell removes the cell from the document in memory and writes
\* nothing: the disk is as before the call and no storage call is made;
\* a save_notebook that follows a successful delete_cell (the storage
\* accepting the write) leaves on the disk exactly the document in memory,
\* which is the document before the delete without the deleted cell.
C8_DeleteNotPersistedUntilSave ==
    [][ /\ call'.op = "delete_cell" =>
             /\ disk' = disk
             /\ call'.trace = <<>>
             /\ IF call'.args[1] >= 0 /\ call'.args[1] < Len(api.cells)
                THEN /\ IsNone(call'.ret)
                     /\ api'.cells = PyDel(api.cells, call'.args[1])
                ELSE /\ ~IsNone(call'.ret)
                     /\ api' = api
        /\ (call.op = "delete_cell" /\ IsNone(call.ret)
              /\ call'.op = "save_notebook" /\ writable) =>
             /\ api' = api
             /\ disk'[api.notebook_path] = File(api'.cells)
             /\ api'.cells = PyDel(call.pre.api.cells, call.args[1])
      ]_vars

\* after the save that followed a delete: the file had one cell more than
\* the document when the save began, and is the document now
C8_Witness ==
    /\ call.op = "save_notebook"
    /\ IsNone(call.ret)
    /\ call.pre.api.cells = api.cells
    /\ Len(call.pre.disk[api.notebook_path].cells) = Len(api.cells) + 1
    /\ call.pre.disk[api.notebook_path].cells # api.cells
    /\ disk[api.notebook_path] = File(api.cells)

\* the last operation was an execute_cells_by_indices that returned a result
BatchReturned ==
    call.op = "execute_cells_by_indices" /\ call.raised = "none"

BatchIndices == call.args[1]

\* the positions of the index list whose index is out of range (the loop
\* does not change the number of cells)
BadPositions ==
    {k \in 1 .. Len(BatchIndices) :
        BatchIndices[k] < 0 \/ BatchIndices[k] >= Len(api.cells)}

FirstBad ==
    IF BadPositions = {} THEN Len(BatchIndices) + 1
    ELSE CHOOSE k \in BadPositions : \A j \in BadPositions : k <= j

IsCodePosition(k) ==
    /\ k \notin BadPositions
    /\ api.cells[BatchIndices[k] + 1].cell_type = "code"

\* the indices of the Code cells listed before position n, in list order
RECURSIVE CodeIndicesBefore(_)
CodeIndicesBefore(n) ==
    IF n <= 1 THEN <<>>
    ELSE IF IsCodePosition(n - 1)
         THEN Append(CodeIndicesBefore(n - 1), BatchIndices[n - 1])
         ELSE CodeIndicesBefore(n - 1)

IsStderr(o) == o.output_type = "stream" /\ o.name = "stderr"

\* the stderr texts the backend produced in the executions that returned,
\* in execution order
RECURSIVE StderrOf(_)
StderrOf(evs) ==
    IF evs = <<>> THEN <<>>
    ELSE LET e == Head(evs)
             errs == IF e.res = "ok" THEN SelectSeq(e.outputs, IsStderr) ELSE <<>>
         IN  [k \in 1 .. Len(errs) |-> [cell_index |-> e.idx, message |-> errs[k].text]]
             \o StderrOf(Tail(evs))

ExecRaised ==
    \E k \in 1 .. Len(Execs(call.trace)) : Execs(call.trace)[k].res # "ok"

\* the stderr texts the backend produced in all the executions, the one
\* that raised included
RECURSIVE StderrOfAll(_)
StderrOfAll(evs) ==
    IF evs = <<>> THEN <<>>
    ELSE LET e == Head(evs)
             errs == SelectSeq(e.outputs, IsStderr)
         IN  [k \in 1 .. Len(errs) |-> [cell_index |-> e.idx, message |-> errs[k].text]]
             \o StderrOfAll(Tail(evs))

\* C9 as stated: success exactly when no listed index reached is out of
\* range and no execution raised; the stderr stream output of every
\* executed cell is a warning, in execution order; the empty list gives the
\* initial result.
C9_Original ==
    BatchReturned =>
        /\ call.ret.success = (~ExecRaised /\ BadPositions = {})
        /\ call.ret.warnings = StderrOfAll(Execs(call.trace))
        /\ call.ret.success =>
               Len(Execs(call.trace)) = Len(CodeIndicesBefore(Len(BatchIndices) + 1))
        /\ BatchIndices = <<>> => call.ret = NewResult

\* C9 amended: execute_cells_by_indices returns success exactly when no
\* listed index is out of range and no execution raised; the warnings are
\* the stderr stream outputs of the executions that returned (not of the
\* one that raised), in execution order, and stderr output neither stops
\* the batch (with success every listed Code cell was executed) nor makes
\* success false; for the empty list the result is success, no last index,
\* no warnings, no error and no output.
C9_SuccessAndWarnings ==
    BatchReturned =>
        /\ call.ret.success = (~ExecRaised /\ BadPositions = {})
        /\ call.ret.warnings = StderrOf(Execs(call.trace))
        /\ call.ret.success =>
               Len(Execs(call.trace)) = Len(CodeIndicesBefore(Len(BatchIndices) + 1))
        /\ BatchIndices = <<>> =>
               call.ret = [success |-> TRUE, last_index |-> None, error |-> None,
                           warnings |-> <<>>, output |-> None]

\* two executions, the first of which wrote to stderr, and success
C9_Witness ==
    /\ BatchReturned
    /\ Len(Execs(call.trace)) = 2
    /\ SelectSeq(Execs(call.trace)[1].outputs, IsStderr) # <<>>
    /\ call.ret.success
    /\ call.ret.warnings # <<>>

\* C10: execute_cells_by_indices stops at the first index out of range: no
\* cell listed at or after that position is executed (the executions are
\* a prefix of the Code cells listed before it), and when the loop reaches
\* that position the result has success false and an error naming that
\* index.
C10_StopsAtFirstOutOfRange ==
    (BatchReturned /\ BadPositions # {}) =>
        LET before == CodeIndicesBefore(FirstBad)
            execs == Execs(call.trace)
        IN  /\ ~call.ret.success
            /\ Len(execs) <= Len(before)
            /\ \A k \in 1 .. Len(execs) : execs[k].idx = before[k]
            /\ ~ExecRaised =>
                   /\ Len(execs) = Len(before)
                   /\ call.ret.error =
                          Some([kind |-> "range", idx |-> BatchIndices[FirstBad]])

\* one cell executed, then the index out of range: stopped with the error
C10_Witness ==
    /\ BatchReturned
    /\ FirstBad = 2
    /\ Len(Execs(call.trace)) = 1
    /\ ~ExecRaised
    /\ ~call.ret.success
    /\ call.ret.error = Some([kind |-> "range", idx |-> BatchIndices[2]])

\* C11: execute_cells_by_indices executes in the order of the list, once
\* per occurrence: the indices given to the backend are, in order, the
\* in-range Code indices of the list before the first out-of-range
\* position, cut after the first execution that raised (all of them when
\* none raised); a Markdown index is never given to the backend and does
\* not make the batch fail.
C11_ListOrder ==
    BatchReturned =>
        LET execs == Execs(call.trace)
            listed == CodeIndicesBefore(FirstBad)
        IN  /\ Len(execs) <= Len(listed)
            /\ \A k \in 1 .. Len(execs) :
                   /\ execs[k].idx = listed[k]
                   /\ api.cells[execs[k].idx + 1].cell_type = "code"
                   /\ (k < Len(execs) => execs[k].res = "ok")
            /\ (~ExecRaised => Len(execs) = Len(listed))
            /\ ((~ExecRaised /\ BadPositions = {}) => call.ret.success)

\* the list <<1, 0>> on two Code cells: cell 1 is executed before cell 0
C11_Witness ==
    /\ BatchReturned
    /\ Len(Execs(call.trace)) = 2
    /\ Execs(call.trace)[1].idx = 1
    /\ Execs(call.trace)[2].idx = 0
    /\ call.ret.success

\* the outputs the last returned execution of each cell produced are the
\* outputs of that cell in the cell list cs
OutputsKept(cs) ==
    LET execs == Execs(call.trace)
    IN  \A k \in 1 .. Len(execs) :
            (/\ execs[k].res \in {"ok", "CellExecutionError"}
             /\ \A j \in k + 1 .. Len(execs) :
                    execs[j].idx # execs[k].idx
                    \/ execs[j].res \notin {"ok", "CellExecutionError"})
            => cs[execs[k].idx + 1].outputs = execs[k].outputs

\* C12: on every return of execute_cells_by_indices (all executed, stopped
\* at an index out of range, stopped at an execution that raised) the
\* document on the disk is the document in memory, with the outputs of the
\* cells executed before the stop, the storage accepting the write.
C12_AlwaysPersists ==
    (BatchReturned /\ writable) =>
        /\ disk[api.notebook_path] = File(api.cells)
        /\ OutputsKept(disk[api.notebook_path].cells)
        /\ Len(SelectSeq(call.trace, IsSave)) = 1
        /\ IsSave(call.trace[Len(call.trace)])

\* a batch stopped by a raising execution after one that returned, saved
C12_Witness ==
    /\ BatchReturned
    /\ writable
    /\ Len(Execs(call.trace)) = 2
    /\ Execs(call.trace)[2].res = "CellExecutionError"
    /\ disk[api.notebook_path] = File(api.cells)
    /\ disk # call.pre.disk

\* C13: an execution that raises inside execute_cells_by_indices, a lost
\* connection included, ends the batch: no restart and no execution follow
\* it, and the result has success false, last_index the failing index and
\* an error for that index.
C13_FailureIsTerminal ==
    (BatchReturned /\ ExecRaised) =>
        LET execs == Execs(call.trace)
            n == Len(execs)
        IN  /\ execs[n].res # "ok"
            /\ \A k \in 1 .. n - 1 : execs[k].res = "ok"
            /\ n <= Len(CodeIndicesBefore(Len(BatchIndices) + 1))
            /\ \A k \in 1 .. Len(call.trace) :
                   (IsStart(call.trace[k]) \/ call.trace[k].ev = "execute") =>
                       \A j \in 1 .. k : ~IsExec(call.trace[j])
            /\ ~call.ret.success
            /\ call.ret.last_index = Some(execs[n].idx)
            /\ call.ret.error = Some([kind |-> "exec", idx |-> execs[n].idx])

\* the first of two listed Code cells loses the connection
C13_Witness ==
    /\ BatchReturned
    /\ Len(CodeIndicesBefore(Len(BatchIndices) + 1)) = 2
    /\ Len(Execs(call.trace)) = 1
    /\ Execs(call.trace)[1].res = "AssertionError"
    /\ ~call.ret.success
    /\ call.ret.last_index = Some(BatchIndices[1])

\* C14 as stated: after run_all_cells returns (the run succeeded, a cell
\* raised a kernel execution error, or the retry after a lost connection
\* failed) the document on the disk is the document in memory, the storage
\* accepting writes.
C14_RunAllPersists ==
    (call.op = "run_all_cells" /\ call.raised = "none" /\ writable) =>
        disk[api.notebook_path] = File(api.cells)

IsBulk(e) == e.ev = "execute"

\* what follows the first run of the document in a trace that has one
AfterFirstBulk(tr) ==
    LET k == CHOOSE n \in 1 .. Len(tr) :
                 IsBulk(tr[n]) /\ \A j \in 1 .. n - 1 : ~IsBulk(tr[j])
    IN  SubSeq(tr, k + 1, Len(tr))

\* the last operation was a run_all_cells whose run lost the connection
RunAllLost ==
    /\ call.op = "run_all_cells"
    /\ SelectSeq(call.trace, IsBulk) # <<>>
    /\ SelectSeq(call.trace, IsBulk)[1].res = "AssertionError"

BulkRestarts == SelectSeq(AfterFirstBulk(call.trace), IsStart)
Reruns == SelectSeq(AfterFirstBulk(call.trace), IsBulk)

\* C15 as stated: a run_all_cells whose run loses the connection makes
\* exactly one restart and exactly one re-run of the whole document, no
\* execution of a single cell, and a second failure is returned as an
\* error string.
C15_Original ==
    RunAllLost =>
        /\ Len(BulkRestarts) = 1
        /\ Len(Reruns) = 1
        /\ Execs(call.trace) = <<>>
        /\ call.raised = "none"
        /\ (Reruns[1].res # "ok" => call.ret = Some("retry_failed"))

\* C15 amended: exactly one restart attempt and at most one re-run of the
\* whole document, exactly one when the restart succeeds; no execution of
\* a single cell; a second failure (of the restart or of the re-run) is
\* returned as an error string, not raised.
C15_RestartOnceRerunOnce ==
    RunAllLost =>
        /\ Len(BulkRestarts) = 1
        /\ Len(Reruns) <= 1
        /\ (Len(Reruns) = 1) = (BulkRestarts[1].res = "ok")
        /\ Execs(call.trace) = <<>>
        /\ call.raised = "none"
        /\ ((BulkRestarts[1].res # "ok" \/ Reruns[1].res # "ok") =>
                call.ret = Some("retry_failed"))

\* the re-run after the restart fails again and is reported
C15_Witness ==
    /\ RunAllLost
    /\ Len(BulkRestarts) = 1
    /\ Len(Reruns) = 1
    /\ Reruns[1].res = "AssertionError"
    /\ call.raised = "none"
    /\ call.ret = Some("retry_failed")

\* C16 as stated: open_notebook of a path with no file leaves an empty
\* document in memory and a file with zero cells at that path (the storage
\* accepting the write); open_notebook of a path with a file leaves the
\* cell list equal to the cell list of the file, so that a save right
\* after it would write the cells the file has.
C16_OpenRoundTrip ==
    call.op = "open_notebook" =>
        LET path == call.args[1]
            flushed == call.pre.api.notebook_path # path
        IN  IF call.pre.disk[path].exists
            THEN /\ api.notebook_path = path
                 /\ api.cells = call.pre.disk[path].cells
                 /\ (flushed => disk[path] = call.pre.disk[path])
            ELSE /\ api.notebook_path = path
                 /\ api.cells = <<>>
                 /\ (writable => disk[path] = File(<<>>))

\* C17: open_notebook of a path other than the one the session is bound to
\* first writes the document in memory (unsaved deletions included) to the
\* old path, the storage accepting the write, and writes nothing of it to
\* the new path: the file at the new path is as it was, or a new file with
\* zero cells.
C17_FlushBeforeSwitch ==
    (call.op = "open_notebook" /\ call.args[1] # call.pre.api.notebook_path) =>
        LET old == call.pre.api.notebook_path
            new == call.args[1]
        IN  /\ call.trace # <<>>
            /\ IsSave(call.trace[1])
            /\ disk[old] = IF writable THEN File(call.pre.api.cells)
                            ELSE call.pre.disk[old]
            /\ disk[new] = IF call.pre.disk[new].exists THEN call.pre.disk[new]
                            ELSE IF writable THEN File(<<>>) ELSE Absent

\* a cell was deleted and not saved; the switch wrote the shorter document
\* to the old path and left the file of the new path alone
C17_Witness ==
    /\ call.op = "open_notebook"
    /\ call.args[1] # call.pre.api.notebook_path
    /\ call.pre.disk[call.pre.api.notebook_path].cells # call.pre.api.cells
    /\ Len(call.pre.api.cells) > 0
    /\ disk[call.pre.api.notebook_path] = File(call.pre.api.cells)
    /\ call.pre.disk[call.args[1]].exists
    /\ disk[call.args[1]] = call.pre.disk[call.args[1]]
    /\ disk[call.args[1]] # disk[call.pre.api.notebook_path]

\* an output record that carries text: a stream, or a result or display
\* with a text/plain entry
TextBearing(o) ==
    \/ o.output_type = "stream"
    \/ (o.output_type \in {"execute_result", "display_data"} /\ o.plain)

RECURSIVE Flatten(_)
Flatten(ss) == IF ss = <<>> THEN <<>> ELSE Head(ss).text \o Flatten(Tail(ss))

\* the concatenation, in record order, of the text of the text-bearing
\* records of the cell the last get_cell_text_output was asked about
AllText == Flatten(SelectSeq(api.cells[call.args[1] + 1].outputs, TextBearing))

TextIndexValid ==
    /\ call.op = "get_cell_text_output"
    /\ call.args[1] >= 0
    /\ call.args[1] < Len(api.cells)

\* C18 as stated: for every cell in range, Code or Markdown, the result
\* has a header with the length of the concatenated text, whatever the
\* offset and the limit, and an offset at or past the end gives an empty
\* payload and no error.
C18_Original ==
    TextIndexValid =>
        /\ call.raised = "none"
        /\ ~call.ret.blank
        /\ call.ret.full_length = Len(AllText)
        /\ (Max(call.args[2], 0) >= Len(AllText) => call.ret.result = <<>>)

\* C18 amended: for every Code cell in range the result has a header with
\* the length of the concatenated text, whatever the offset and the limit,
\* and an offset at or past the end gives an empty payload and no error;
\* for a Markdown cell the result is the empty string, without a header.
C18_FullLengthReported ==
    TextIndexValid =>
        /\ call.raised = "none"
        /\ IF api.cells[call.args[1] + 1].cell_type = "code"
           THEN /\ ~call.ret.blank
                /\ call.ret.full_length = Len(AllText)
                /\ (Max(call.args[2], 0) >= Len(AllText) => call.ret.result = <<>>)
           ELSE /\ call.ret.blank
                /\ call.ret.result = <<>>

\* a slice from the middle of a text of four characters, limit 1
C18_Witness ==
    /\ TextIndexValid
    /\ Len(AllText) = 4
    /\ call.args[2] = 2
    /\ call.args[3] = Some(1)
    /\ call.ret.full_length = 4
    /\ Len(call.ret.result) = 1

\* the characters of text at the 0-based positions lo .. hi - 1
Window(text, lo, hi) ==
    LET last == Min(hi, Len(text))
    IN  IF lo >= last THEN <<>> ELSE [k \in 1 .. last - lo |-> text[lo + k]]

\* C19 as stated: for a Code cell the payload is the characters of the
\* concatenated text at positions [o, o + limit) with o = max(offset, 0),
\* for every integer offset and limit (never longer than limit, empty when
\* limit <= 0), and everything from o on when limit is None.
C19_PayloadIsWindow ==
    (TextIndexValid /\ api.cells[call.args[1] + 1].cell_type = "code") =>
        LET o == Max(call.args[2], 0)
        IN  /\ call.raised = "none"
            /\ call.ret.result =
                   IF IsNone(call.args[3]) THEN Window(AllText, o, Len(AllText))
                   ELSE Window(AllText, o, o + Val(call.args[3]))

\* the last operation tried to write the document and the write failed
SaveFailed ==
    \E k \in 1 .. Len(call.trace) :
        IsSave(call.trace[k]) /\ call.trace[k].res = "failed"

\* the result of the last operation tells the caller that the write failed
SaveReported ==
    \/ call.op = "insert_cell" /\ call.ret.kind = "error"
    \/ call.op = "run_all_cells" /\ call.ret = Some("save_error")
    \/ call.op = "run_cell" /\ call.ret.kind = "save_error"
    \/ call.op = "execute_cells_by_indices"
          /\ ~IsNone(call.ret.error) /\ Val(call.ret.error).kind = "save"

\* the effect of the last operation on the document in memory is there
EffectKept ==
    /\ call.op \in {"run_cell", "execute_cells_by_indices"} => OutputsKept(api.cells)
    /\ call.op \in {"insert_cell", "insert_and_execute_cell"} =>
           Len(api.cells) = Len(call.pre.api.cells) + 1

\* C20 as stated: when the write of the document fails during run_cell,
\* execute_cells_by_indices, insert_cell, insert_and_execute_cell,
\* run_all_cells or the open of a new path, the result of the operation
\* reports the failure, and the effect of the operation in memory is kept.
C20_SaveFailureReported ==
    (/\ call.op \in {"run_cell", "execute_cells_by_indices", "insert_cell",
                     "insert_and_execute_cell", "run_all_cells", "open_notebook"}
     /\ call.raised = "none"
     /\ SaveFailed)
    => (SaveReported /\ EffectKept)

\* C21: edit_cell_content(i, s) with i in range sets the source of cell i to
\* s and writes the document (when the storage accepts the write); the
\* outputs of the cell, the other cells and the number of cells are the
\* same, no cell is executed and no connection is started. With i out of
\* range nothing is changed and nothing is written.
C21_EditChangesOnlySource ==
    call.op = "edit_cell_content" =>
        LET i == call.args[1]
            before == call.pre.api.cells
        IN  IF i >= 0 /\ i < Len(before)
            THEN /\ api.cells = [before EXCEPT ![i + 1].source = call.args[2]]
                 /\ api.client = call.pre.api.client
                 /\ api.notebook_path = call.pre.api.notebook_path
                 /\ \A k \in 1 .. Len(call.trace) : IsSave(call.trace[k])
                 /\ disk = IF call.pre.writable
                           THEN [call.pre.disk EXCEPT ![api.notebook_path] = File(api.cells)]
                           ELSE call.pre.disk
            ELSE /\ api = call.pre.api
                 /\ disk = call.pre.disk
                 /\ call.trace = <<>>

\* a cell with outputs was edited without a connection, and written
C21_Witness ==
    /\ call.op = "edit_cell_content"
    /\ call.args[1] >= 0 /\ call.args[1] < Len(call.pre.api.cells)
    /\ call.pre.api.cells[call.args[1] + 1].outputs # <<>>
    /\ call.pre.api.cells[call.args[1] + 1].source # call.args[2]
    /\ call.pre.api.client = "None"
    /\ disk # call.pre.disk


\* C22 as stated: between two operations of the session the backup of the
\* cell list is absent (original_cells is None); it holds a list only while
\* a start or restart of the kernel is running.
C22_Original ==
    api.origState = "none"

\* C22: from the open of the notebook on the backup of the cell list is
\* present between the operations of the session (original_cells is a list,
\* never None), and what save_notebook writes is the cell list of the
\* document, not the backup.
C22_BackupKeptSinceOpen ==
    /\ api.notebook = "open"
    /\ api.origState # "none"
    /\ (call.op = "save_notebook" /\ call.ret = None) =>
           disk[api.notebook_path] = File(api.cells)

\* the kernel was restarted and the backup is still there afterwards
C22_Witness ==
    /\ call.op = "start_kernel" /\ call.raised = "none"
    /\ call.pre.api.client # "None"
    /\ api.cells # <<>> /\ api.original_cells = api.cells


\* C23 as stated: a start or restart of the kernel that succeeds executes no
\* cell and leaves the document as it was before the call (so a second start
\* changes nothing either).
C23_StartKeepsDocument ==
    (call.op = "start_kernel" /\ call.raised = "none") =>
        /\ api.cells = call.pre.api.cells
        /\ Execs(call.trace) = <<>>


\* the kernels the session has started and has not asked to shut down
RunningKernels == api.orphans + (IF api.live THEN 1 ELSE 0)

\* C24 as stated: the session has at most one kernel running: every
\* operation that creates a connection first tears the old one down, so no
\* sequence of operations leaves two kernels running.
C24_AtMostOneKernel ==
    RunningKernels <= 1


\* a run of one cell or of the whole notebook by the backend
IsRun(e) == e.ev \in {"execute_cell", "execute"}

Executing ==
    {"run_cell", "execute_cells_by_indices", "insert_and_execute_cell", "run_all_cells"}

\* C25: in run_cell, execute_cells_by_indices, insert_and_execute_cell and
\* run_all_cells the backend runs a cell only while the session holds a
\* connection: when there was none at the call, a start of the kernel has
\* succeeded in this call before the first run, after any operations before.
C25_ConnectionBeforeExecution ==
    call.op \in Executing =>
        /\ \A k \in 1 .. Len(call.trace) :
              IsRun(call.trace[k]) =>
                  \/ call.pre.api.client # "None"
                  \/ \E j \in 1 .. k - 1 :
                        IsStart(call.trace[j]) /\ call.trace[j].res = "ok"
        /\ (\E k \in 1 .. Len(call.trace) : IsRun(call.trace[k])) =>
               api.client # "None"

\* after a shutdown of the kernel, one of the four operations ran a cell
C25_Witness ==
    /\ call.op \in Executing
    /\ steps = 2
    /\ call.pre.api.client = "None"
    /\ Len(call.trace) >= 2
    /\ IsStart(call.trace[1])
    /\ \E k \in 2 .. Len(call.trace) : IsRun(call.trace[k])


NoMarkdownOutputs(cs) ==
    \A j \in 1 .. Len(cs) : cs[j].cell_type = "markdown" => cs[j].outputs = <<>>

\* the index of the last operation named a Markdown cell of the document
NamedMarkdown ==
    /\ call.args[1] >= 0 /\ call.args[1] < Len(call.pre.api.cells)
    /\ call.pre.api.cells[call.args[1] + 1].cell_type = "markdown"

\* C26: in every state no Markdown cell of the document (or of its backup)
\* has outputs: insert_and_execute_cell of a Markdown cell and run_cell on a
\* Markdown cell run nothing, execute_cells_by_indices runs Code cells only,
\* and no insert, edit, tag, delete or run of the whole notebook attaches an
\* output to a Markdown cell.
C26_MarkdownHasNoOutputs ==
    /\ NoMarkdownOutputs(api.cells)
    /\ NoMarkdownOutputs(api.original_cells)
    /\ (call.op = "insert_and_execute_cell" /\ call.args[1] = "markdown") =>
           ~ \E k \in 1 .. Len(call.trace) : IsRun(call.trace[k])
    /\ (call.op = "run_cell" /\ NamedMarkdown) =>
           call.raised = "ValueError" /\ call.trace = <<>>
    /\ call.op = "execute_cells_by_indices" =>
           \A k \in 1 .. Len(call.trace) :
               IsExec(call.trace[k]) =>
                   api.cells[call.trace[k].idx + 1].cell_type = "code"

\* a Markdown cell was inserted by insert_and_execute_cell next to a Code
\* cell that has outputs
C26_Witness ==
    /\ call.op = "insert_and_execute_cell" /\ call.args[1] = "markdown"
    /\ call.raised = "none"
    /\ Len(api.cells) = 2
    /\ \E j \in 1 .. 2 : api.cells[j].cell_type = "markdown"
    /\ \E j \in 1 .. 2 : api.cells[j].outputs # <<>>


\* the last operation was given a malformed parameter: an unknown cell type,
\* or an index list whose first index is out of range
Malformed ==
    \/ call.op = "insert_and_execute_cell" /\ call.args[1] \notin {"code", "markdown"}
    \/ /\ call.op = "execute_cells_by_indices"
       /\ call.args[1] # <<>>
       /\ (call.args[1][1] < 0 \/ call.args[1][1] >= Len(call.pre.api.cells))

\* C27 as stated: insert_and_execute_cell with an unknown cell type, and
\* execute_cells_by_indices with a first index out of range, report the
\* failure without the call having started, restarted or used a connection,
\* also when the session held no connection at the call.
C27_MalformedBeforeBackend ==
    Malformed =>
        /\ \A k \in 1 .. Len(call.trace) :
              ~IsStart(call.trace[k]) /\ ~IsRun(call.trace[k])
        /\ api.client = call.pre.api.client


C29_ClassifiedByOutcome ==
    call.op = "mcp_run_cell" =>
        /\ call.ret.kind = "output" => call.ret.report = "output"
        /\ call.ret.kind \in {"exec_error", "retry_failed"} =>
               call.ret.report = "error_warning"


\* C30 as stated: an open that fails on an unreadable or malformed file
\* leaves the session as it was: the document and its path are those of the
\* notebook that was open before.
C30_FailedOpenKeepsSession ==
    (call.op = "open_notebook" /\ call.raised = "ReadError") =>
        /\ api.cells = call.pre.api.cells
        /\ api.notebook_path = call.pre.api.notebook_path


\* C31 as stated: when a start or restart of the kernel raises, the cell
\* list of the document has still been restored from the backup: the
\* document is not left with the emptied list.
C31_FailedStartRestoresCells ==
    (call.op = "start_kernel" /\ call.raised # "none") =>
        api.cells = call.pre.api.cells


\* C32 as stated: between the operations the cell list a restart of the
\* kernel would restore (the backup) equals the cell list of the document,
\* after any sequence of open, insert, insert-and-execute, edit, tag and
\* delete; so a restart that succeeds leaves the document as the last such
\* operation left it.
C32_BackupEqualsDocument ==
    /\ api.original_cells = api.cells
    /\ (call.op = "start_kernel" /\ call.raised = "none") =>
           api.cells = call.pre.api.cells

====
